---- MODULE Spec2Model ----
(***************************************************************************)
(* Usage-tracking engine of the dazuukiknie agent: the polling loop        *)
(* trackForegroundWindow, the three tray handlers (status, "Save Now",     *)
(* "Exit") and saveAppUsageToFile, sharing appUsageList under              *)
(* appUsageMutex.                                                          *)
(*                                                                         *)
(* appUsageList is a slice of pointers: the model keeps the pointed-to     *)
(* entries in heap (index = identity of the entry) and the slices as       *)
(* sequences of indices, so a copied slice shares its entries with the     *)
(* original exactly as in the code.                                        *)
(***************************************************************************)
EXTENDS Integers, Sequences, FiniteSets, TLC

\* ---------------------------------------------------------------- bounds
MaxTime == 3        \* wall-clock seconds run over 1..MaxTime
MaxSessions == 2    \* entries ever allocated by the polling loop
SaveTicks == 3      \* auto-save threshold of saveCountdown (60 in the code)

\* what the two inspector calls can report for a focused window: <<title, path>>
\* (one executable under two titles, another one with an empty title)
Windows == {<<"T", "A">>, <<"U", "A">>, <<"", "B">>}

Min(a, b) == IF a < b THEN a ELSE b

VARIABLES
  clock,            \* the last value read from time.Now(), never decreasing
  heap,             \* the AppUsageEntry objects allocated so far (Dead: garbage)
  appUsageList,     \* the shared log: indices into heap
  appUsageMutex,    \* "free", or the task that holds it
  pcPoll,           \* position of the polling goroutine
  saveCountdown, lastExePath,
  now, currentAppTitle, currentExePath, errPath,
  pollList,         \* listToSave of the polling loop
  pollErr,          \* err of the auto-save: "none" (not set), "nil", "error"
  pcUI,             \* position of the UI thread
  uiList,           \* listToSave of the running handler
  uiErr,            \* err of the handler's save
  lastAppInfo,      \* status handler's local
  files,            \* snapshot files: name (clock second) -> entries written
  steamFile,        \* "absent" or "written"
  exited,           \* walk.App().Exit(0) was called
  \* observer variables (history only, never read by the program)
  detachCount,      \* per entry: in how many detached sequences (capped at 2)
  detachedSinceTick,\* a detach happened after the last tick
  prevTickExe,      \* executablePath of the last tick ("" if empty or error)
  runs, sawEmpty,   \* maximal runs of equal paths observed so far
  runStart,         \* time of the first tick of the current run
  runNew,           \* entries appended during the current run (capped at 2)
  runCut,           \* a detach happened inside the current run
  gap, gapAt,       \* 1: last tick opened an entry; 2: then an idle tick at gapAt;
                    \* 3: last tick was an error tick
  preList, preHeap, preLast, \* log, entries, lastExePath when the tick locked
  \* one call of getActiveWindowExecutablePath taken alone
  inspIn,           \* what the OS calls of the call answer
  inspOut           \* what the call returned and did with its process handle

progVars == <<clock, heap, appUsageList, appUsageMutex, pcPoll, saveCountdown,
              lastExePath, now, currentAppTitle, currentExePath, errPath,
              pollList, pollErr, pcUI, uiList, uiErr, lastAppInfo, files,
              steamFile, exited>>
obsVars == <<detachCount, detachedSinceTick, prevTickExe, runs, sawEmpty,
             runStart, runNew, runCut, gap, gapAt, preList, preHeap, preLast>>
inspVars == <<inspIn, inspOut>>
vars == <<progVars, obsVars, inspVars>>

\* ------------------------------------------------------- pure operators
Last(s) == s[Len(s)]

\* variant: the entry starts with a zero End
NewEntryZeroEnd(title, path, t) ==
  [AppName |-> title, ExecutablePath |-> path, Start |-> t, End |-> 0]

\* variant: the new entry starts a second after the tick's time
NewEntryLate(title, path, t) ==
  [AppName |-> title, ExecutablePath |-> path, Start |-> t + 1, End |-> t + 1]

\* &AppUsageEntry{AppName, ExecutablePath, Start: now, End: now}
NewEntry(title, path, t) ==
  [AppName |-> title, ExecutablePath |-> path, Start |-> t, End |-> t]

\* variant: the End is never written
SetLastEndSkipped(h, list, t) == h

\* variant: the End of the first entry is written instead of the last one's
SetLastEndOfFirst(h, list, t) ==
  IF Len(list) > 0
    THEN [h EXCEPT ![list[1]].End = t]
    ELSE h

\* variant: the End is written one second early
SetLastEndEarly(h, list, t) ==
  IF Len(list) > 0
    THEN [h EXCEPT ![list[Len(list)]].End = t - 1]
    ELSE h

\* appUsageList[len(appUsageList)-1].End = now, guarded by len > 0
SetLastEnd(h, list, t) ==
  IF Len(list) > 0
    THEN [h EXCEPT ![Last(list)].End = t]
    ELSE h

\* variant: the comparison with lastExePath is missing
ChangedAlways(exe, last) == exe # ""

\* currentExePath != "" && currentExePath != lastExePath
Changed(exe, last) == exe # "" /\ exe # last

\* variant: the copy is one element short
CopyListShort(list) == SubSeq(list, 1, Len(list) - 1)

\* listToSave := make(..., len(appUsageList)); copy(listToSave, appUsageList)
CopyList(list) == list

\* variant: the log is not cleared
ClearedListKept(list) == list

\* variant: the clear keeps the trailing entry
ClearedListButLast(list) ==
  IF Len(list) > 0 THEN <<list[Len(list)]>> ELSE << >>

\* appUsageList = nil
ClearedList(list) == << >>

\* variant: Lock() does not wait
CanLockAlways(m) == TRUE

\* appUsageMutex.Lock() returns only when nobody holds the mutex
CanLock(m) == m = "free"

\* variant: the mutex is not released
UnlockedNot(m) == m

\* appUsageMutex.Unlock()
Unlocked(m) == "free"

\* saveCountdown >= 60
SaveDue(n) == n >= SaveTicks

\* an entry that no slice refers to any more
Dead == [AppName |-> "", ExecutablePath |-> "", Start |-> 0, End |-> 0]

Elems(list) == {list[k] : k \in 1..Len(list)}

\* the garbage collector: entries reachable from none of the slices are gone
Collect(h, live) == [i \in DOMAIN h |-> IF i \in live THEN h[i] ELSE Dead]

\* the observer forgets the collected entries
Forget(c, live) == [i \in DOMAIN c |-> IF i \in live THEN c[i] ELSE 0]

\* ------------------------------------------------------ observer updates
\* a tick with path exe ("" for an empty observation or an error) is over;
\* appended: it appended an entry
ObserveTick(exe, isErr, appended) ==
  /\ prevTickExe' = exe
  /\ detachedSinceTick' = FALSE
  /\ sawEmpty' = (sawEmpty \/ exe = "")
  /\ runs' = IF sawEmpty \/ exe = "" THEN 0
             ELSE IF exe # prevTickExe THEN Min(runs + 1, MaxSessions + 1)
             ELSE runs
  /\ runStart' = IF exe = "" THEN 0
                 ELSE IF exe # prevTickExe THEN now
                 ELSE runStart
  /\ runNew' = IF exe = "" THEN 0
               ELSE Min((IF exe # prevTickExe THEN 0 ELSE runNew)
                        + (IF appended THEN 1 ELSE 0), 2)
  /\ runCut' = IF exe = "" \/ exe # prevTickExe THEN FALSE ELSE runCut
  /\ gap' = IF appended THEN 1
            ELSE IF /\ gap = 1 /\ exe = "" /\ ~isErr /\ Len(appUsageList) > 0
                    /\ now > heap[Last(appUsageList)].Start
              THEN 2
            ELSE IF isErr THEN 3
            ELSE 0
  /\ gapAt' = IF gap' = 2 THEN now ELSE 0

\* a task copied list into its listToSave
ObserveCopy(list) ==
  detachCount' = [i \in DOMAIN detachCount |->
                    IF i \in Elems(list)
                      THEN Min(detachCount[i] + 1, 2)
                      ELSE detachCount[i]]

\* a task cleared the shared log
ObserveClear ==
  /\ detachedSinceTick' = TRUE
  /\ runCut' = (prevTickExe # "")
  /\ runStart' = 0
  /\ runNew' = 0
  /\ gap' = 0
  /\ gapAt' = 0

\* --------------------------------- getActiveWindowExecutablePath
\* the executables a focused window can belong to
Paths == {w[2] : w \in Windows}

\* the answers of the OS calls of one call: GetForegroundWindow (a non-zero
\* errno, no window, a window), GetWindowThreadProcessId (errno, process id
\* 0, an id), OpenProcess, QueryFullProcessImageNameW and GetModuleFileNameExW
\* (a path, zero with a non-zero errno, zero with errno 0), and the path of
\* the window's executable
InspInputs ==
  [fg : {"errno", "none", "ok"}, pid : {"errno", "zero", "ok"},
   open : {"fail", "ok"}, primary : {"ok", "errno", "zero"},
   fallback : {"ok", "errno", "zero"}, exe : Paths]

NoCall ==
  [fg |-> "-", pid |-> "-", open |-> "-", primary |-> "-", fallback |-> "-",
   exe |-> ""]

NotReturned ==
  [done |-> FALSE, path |-> "", err |-> "nil", opened |-> 0, closed |-> 0,
   fallback |-> FALSE]

\* variant: the handle is closed by hand on the success paths only
ReturnLeaksOnError(path, err, h, deferred, fb) ==
  [done |-> TRUE, path |-> path, err |-> err, opened |-> h,
   closed |-> IF err = "nil" THEN h ELSE 0, fallback |-> fb]

\* a return statement of the call, with h process handles opened before it:
\* the deferred windows.CloseHandle(hProcess), if registered, runs now
Return(path, err, h, deferred, fb) ==
  [done |-> TRUE, path |-> path, err |-> err, opened |-> h,
   closed |-> IF deferred THEN h ELSE 0, fallback |-> fb]

\* the body of getActiveWindowExecutablePath, return by return; the defer
\* follows the error check of OpenProcess
getActiveWindowExecutablePath(in) ==
  IF in.fg = "errno" THEN Return("", "GetForegroundWindow", 0, FALSE, FALSE)
  ELSE IF in.fg = "none" THEN Return("", "nil", 0, FALSE, FALSE)
  ELSE IF in.pid = "errno"
    THEN Return("", "GetWindowThreadProcessId", 0, FALSE, FALSE)
  ELSE IF in.pid = "zero" THEN Return("", "processID", 0, FALSE, FALSE)
  ELSE IF in.open = "fail" THEN Return("", "OpenProcess", 0, FALSE, FALSE)
  ELSE IF in.primary = "ok" THEN Return(in.exe, "nil", 1, TRUE, FALSE)
  ELSE IF in.primary = "errno"
    THEN IF in.fallback = "ok" THEN Return(in.exe, "nil", 1, TRUE, TRUE)
         ELSE IF in.fallback = "errno"
           THEN Return("", "GetModuleFileNameExW", 1, TRUE, TRUE)
         ELSE Return("", "GetModuleFileNameExW zero return", 1, TRUE, TRUE)
  ELSE Return("", "QueryFullProcessImageNameW zero return", 1, TRUE, FALSE)

\* what the polling loop can get from the call for a focused window of
\* executable window ("": no window): the path and whether err != nil
InspectorResults ==
  {[window |-> IF in.fg = "none" THEN "" ELSE in.exe,
    path |-> getActiveWindowExecutablePath(in).path,
    err |-> getActiveWindowExecutablePath(in).err # "nil"] : in \in InspInputs}

\* ------------------------------------------------------------------ Init
\* the program right after main started the polling goroutine
ProgInit ==
  /\ clock = 1
  /\ heap = << >>
  /\ appUsageList = << >>
  /\ appUsageMutex = "free"
  /\ pcPoll = "wait"
  /\ saveCountdown = 0
  /\ lastExePath = ""
  /\ now = 0
  /\ currentAppTitle = ""
  /\ currentExePath = ""
  /\ errPath = FALSE
  /\ pollList = << >>
  /\ pollErr = "none"
  /\ pcUI = "idle"
  /\ uiList = << >>
  /\ uiErr = "none"
  /\ lastAppInfo = "none"
  /\ files = << >>
  /\ steamFile = "absent"
  /\ exited = FALSE
  /\ detachCount = << >>
  /\ detachedSinceTick = FALSE
  /\ prevTickExe = ""
  /\ runs = 0
  /\ sawEmpty = FALSE
  /\ runStart = 0
  /\ runNew = 0
  /\ runCut = FALSE
  /\ gap = 0
  /\ gapAt = 0
  /\ preList = << >>
  /\ preHeap = << >>
  /\ preLast = ""

Init ==
  /\ ProgInit
  /\ inspIn = NoCall
  /\ inspOut = NotReturned

\* --------------------------------------------- trackForegroundWindow
uiVars == <<pcUI, uiList, uiErr, lastAppInfo, exited>>
fsVars == <<files, steamFile>>
tickObs == <<detachedSinceTick, prevTickExe, runs, sawEmpty, runStart, runNew,
             runCut, gap, gapAt>>
preVars == <<preList, preHeap, preLast>>

\* for range ticker.C; now := time.Now().Unix(); the two inspector calls.
\* The inspector returns ("", err), ("", nil) or (path, nil); the title is
\* not read on the error path.
TickObserve ==
  /\ ~exited
  /\ pcPoll = "wait"
  /\ \E w \in Windows \cup {<<"", "">>}, r \in InspectorResults,
        t \in clock..MaxTime :
       /\ r.window = w[2]
       /\ Changed(r.path, lastExePath) => Len(heap) < MaxSessions
       /\ clock' = t
       /\ now' = t
       /\ currentAppTitle' = IF r.err THEN "" ELSE w[1]
       /\ currentExePath' = r.path
       /\ errPath' = r.err
       /\ pcPoll' = IF r.err THEN "errLock" ELSE "lock"
  /\ UNCHANGED <<heap, appUsageList, appUsageMutex, saveCountdown,
                 lastExePath, pollList, pollErr>>
  /\ UNCHANGED <<uiVars, fsVars, obsVars>>
  /\ UNCHANGED inspVars

\* errPath != nil: appUsageMutex.Lock()
ErrLock ==
  /\ ~exited
  /\ pcPoll = "errLock"
  /\ CanLock(appUsageMutex)
  /\ appUsageMutex' = "poll"
  /\ pcPoll' = "errUpdate"
  /\ preList' = appUsageList /\ preHeap' = heap /\ preLast' = lastExePath
  /\ UNCHANGED <<clock, heap, appUsageList, saveCountdown, lastExePath, now,
                 currentAppTitle, currentExePath, errPath, pollList, pollErr>>
  /\ UNCHANGED <<uiVars, fsVars, detachCount, tickObs>>
  /\ UNCHANGED inspVars

\* if len(appUsageList) > 0 { last.End = now }
ErrUpdate ==
  /\ ~exited
  /\ pcPoll = "errUpdate"
  /\ heap' = SetLastEnd(heap, appUsageList, now)
  /\ pcPoll' = "errUnlock"
  /\ ObserveTick("", TRUE, FALSE)
  /\ UNCHANGED <<clock, appUsageList, appUsageMutex, saveCountdown,
                 lastExePath, now, currentAppTitle, currentExePath, errPath,
                 pollList, pollErr>>
  /\ UNCHANGED <<uiVars, fsVars, detachCount, preVars>>
  /\ UNCHANGED inspVars

\* variant: lastExePath is not reset after an error
ErrUnlockKeepsPath ==
  /\ ~exited
  /\ pcPoll = "errUnlock"
  /\ appUsageMutex' = Unlocked(appUsageMutex)
  /\ pcPoll' = "wait"
  /\ now' = 0 /\ currentAppTitle' = "" /\ currentExePath' = "" /\ errPath' = FALSE
  /\ preList' = << >> /\ preHeap' = << >> /\ preLast' = ""
  /\ UNCHANGED <<clock, heap, appUsageList, saveCountdown, lastExePath,
                 pollList, pollErr>>
  /\ UNCHANGED <<uiVars, fsVars, detachCount, tickObs>>
  /\ UNCHANGED inspVars

\* appUsageMutex.Unlock(); lastExePath = ""; continue (the iteration's locals
\* go out of scope)
ErrUnlock ==
  /\ ~exited
  /\ pcPoll = "errUnlock"
  /\ appUsageMutex' = Unlocked(appUsageMutex)
  /\ lastExePath' = ""
  /\ pcPoll' = "wait"
  /\ now' = 0 /\ currentAppTitle' = "" /\ currentExePath' = "" /\ errPath' = FALSE
  /\ preList' = << >> /\ preHeap' = << >> /\ preLast' = ""
  /\ UNCHANGED <<clock, heap, appUsageList, saveCountdown, pollList, pollErr>>
  /\ UNCHANGED <<uiVars, fsVars, detachCount, tickObs>>
  /\ UNCHANGED inspVars

\* appUsageMutex.Lock() of the normal path
TickLock ==
  /\ ~exited
  /\ pcPoll = "lock"
  /\ CanLock(appUsageMutex)
  /\ appUsageMutex' = "poll"
  /\ pcPoll' = "body"
  /\ preList' = appUsageList /\ preHeap' = heap /\ preLast' = lastExePath
  /\ UNCHANGED <<clock, heap, appUsageList, saveCountdown, lastExePath, now,
                 currentAppTitle, currentExePath, errPath, pollList, pollErr>>
  /\ UNCHANGED <<uiVars, fsVars, detachCount, tickObs>>
  /\ UNCHANGED inspVars

\* the if / else if / else if chain; in the first branch only the closing of
\* the previous entry, the append is TickAppend
TickBody ==
  /\ ~exited
  /\ pcPoll = "body"
  /\ IF Changed(currentExePath, lastExePath)
       THEN /\ heap' = SetLastEnd(heap, appUsageList, now)
            /\ pcPoll' = "append"
            /\ UNCHANGED lastExePath
       ELSE IF currentExePath # "" /\ Len(appUsageList) > 0
       THEN /\ heap' = SetLastEnd(heap, appUsageList, now)
            /\ pcPoll' = "count"
            /\ UNCHANGED lastExePath
       ELSE IF currentExePath = ""
       THEN /\ heap' = SetLastEnd(heap, appUsageList, now)
            /\ lastExePath' = ""
            /\ pcPoll' = "count"
       ELSE /\ pcPoll' = "count"
            /\ UNCHANGED <<heap, lastExePath>>
  /\ UNCHANGED <<clock, appUsageList, appUsageMutex, saveCountdown, now,
                 currentAppTitle, currentExePath, errPath, pollList, pollErr>>
  /\ UNCHANGED <<uiVars, fsVars, detachCount, tickObs, preVars>>
  /\ UNCHANGED inspVars

\* appUsageList = append(appUsageList, &AppUsageEntry{...}); lastExePath = ...
TickAppend ==
  /\ ~exited
  /\ pcPoll = "append"
  /\ heap' = Append(heap, NewEntry(currentAppTitle, currentExePath, now))
  /\ appUsageList' = Append(appUsageList, Len(heap) + 1)
  /\ lastExePath' = currentExePath
  /\ detachCount' = Append(detachCount, 0)
  /\ pcPoll' = "count"
  /\ UNCHANGED <<clock, appUsageMutex, saveCountdown, now, currentAppTitle,
                 currentExePath, errPath, pollList, pollErr>>
  /\ UNCHANGED <<uiVars, fsVars, tickObs, preVars>>
  /\ UNCHANGED inspVars

\* saveCountdown++; if saveCountdown >= 60 { saveCountdown = 0 ... }
TickCount ==
  /\ ~exited
  /\ pcPoll = "count"
  /\ IF SaveDue(saveCountdown + 1)
       THEN saveCountdown' = 0 /\ pcPoll' = "copy"
       ELSE saveCountdown' = saveCountdown + 1 /\ pcPoll' = "unlock"
  /\ ObserveTick(currentExePath, FALSE, Len(appUsageList) > Len(preList))
  /\ preList' = << >> /\ preHeap' = << >> /\ preLast' = ""
  /\ UNCHANGED <<clock, heap, appUsageList, appUsageMutex, lastExePath, now,
                 currentAppTitle, currentExePath, errPath, pollList, pollErr>>
  /\ UNCHANGED <<uiVars, fsVars, detachCount>>
  /\ UNCHANGED inspVars

\* variant: the else branch with the Unlock is missing
TickUnlockMissing ==
  /\ ~exited
  /\ pcPoll = "unlock"
  /\ pcPoll' = "wait"
  /\ now' = 0 /\ currentAppTitle' = "" /\ currentExePath' = "" /\ errPath' = FALSE
  /\ UNCHANGED <<clock, heap, appUsageList, appUsageMutex, saveCountdown,
                 lastExePath, pollList, pollErr>>
  /\ UNCHANGED <<uiVars, fsVars, obsVars>>
  /\ UNCHANGED inspVars

\* else { appUsageMutex.Unlock() }; end of the iteration
TickUnlock ==
  /\ ~exited
  /\ pcPoll = "unlock"
  /\ appUsageMutex' = Unlocked(appUsageMutex)
  /\ pcPoll' = "wait"
  /\ now' = 0 /\ currentAppTitle' = "" /\ currentExePath' = "" /\ errPath' = FALSE
  /\ UNCHANGED <<clock, heap, appUsageList, saveCountdown, lastExePath,
                 pollList, pollErr>>
  /\ UNCHANGED <<uiVars, fsVars, obsVars>>
  /\ UNCHANGED inspVars

\* ------------------------------------------------- saveAppUsageToFile
SteamOutcomes == {"buildFailed", "writeFailed", "written"}

\* buildSteamInfo and the write of steaminfo.json
SteamStep(sf, outcome) == IF outcome = "written" THEN "written" ELSE sf

\* os.WriteFile(fileName, jsonData, 0644), fileName from time.Now()
WriteSnapshot(fs, name, content, ok) ==
  IF ok THEN (name :> content) @@ fs ELSE fs

\* for _, entry := range listToSave { if entry != nil { append(*entry) } }:
\* the file holds one record per entry, here the entry's identity
Snapshot(h, list) == list

\* variant: a failure of the steam info makes the save fail
FlushErrOnSteam(outcome, ok) ==
  IF ok /\ outcome = "written" THEN "nil" ELSE "error"

\* the error returned for a non-empty list: from json.MarshalIndent or from
\* the os.WriteFile of the snapshot; the steam info's failures are only logged
FlushErr(outcome, ok) == IF ok THEN "nil" ELSE "error"

\* variant: the early return for an empty list is missing
NothingToSaveNever(list) == FALSE

\* len(listToSave) == 0: return nil
NothingToSave(list) == Len(list) = 0

\* listToSave := copy; appUsageList = nil inside the lock (auto-save)
TickCopy ==
  /\ ~exited
  /\ pcPoll = "copy"
  /\ pollList' = CopyList(appUsageList)
  /\ pcPoll' = "clear"
  /\ ObserveCopy(CopyList(appUsageList))
  /\ UNCHANGED <<clock, heap, appUsageList, appUsageMutex, saveCountdown,
                 lastExePath, now, currentAppTitle, currentExePath, errPath,
                 pollErr>>
  /\ UNCHANGED <<uiVars, fsVars, tickObs, preVars>>
  /\ UNCHANGED inspVars

TickClear ==
  /\ ~exited
  /\ pcPoll = "clear"
  /\ appUsageList' = ClearedList(appUsageList)
  /\ pcPoll' = "saveUnlock"
  /\ ObserveClear
  /\ UNCHANGED <<clock, heap, appUsageMutex, saveCountdown, lastExePath, now,
                 currentAppTitle, currentExePath, errPath, pollList, pollErr>>
  /\ UNCHANGED <<uiVars, fsVars, detachCount, prevTickExe, runs, sawEmpty,
                 preVars>>
  /\ UNCHANGED inspVars

\* appUsageMutex.Unlock() before the file I/O
TickSaveUnlock ==
  /\ ~exited
  /\ pcPoll = "saveUnlock"
  /\ appUsageMutex' = Unlocked(appUsageMutex)
  /\ pcPoll' = "save"
  /\ UNCHANGED <<clock, heap, appUsageList, saveCountdown, lastExePath, now,
                 currentAppTitle, currentExePath, errPath, pollList, pollErr>>
  /\ UNCHANGED <<uiVars, fsVars, obsVars>>
  /\ UNCHANGED inspVars

\* variant: a failure of the steam info ends the save with an error, before
\* the snapshot is written
TickSaveStopsOnSteam ==
  /\ ~exited
  /\ pcPoll = "save"
  /\ IF NothingToSave(pollList)
       THEN pollErr' = "nil" /\ UNCHANGED <<clock, files, steamFile>>
       ELSE \E o \in SteamOutcomes, ok \in BOOLEAN, t \in clock..MaxTime :
              /\ steamFile' = SteamStep(steamFile, o)
              /\ clock' = t
              /\ files' = WriteSnapshot(files, t, Snapshot(heap, pollList),
                                        ok /\ o = "written")
              /\ pollErr' = FlushErr(o, ok /\ o = "written")
  /\ pcPoll' = "logged"
  /\ UNCHANGED <<heap, appUsageList, appUsageMutex, saveCountdown,
                 lastExePath, now, currentAppTitle, currentExePath, errPath,
                 pollList>>
  /\ UNCHANGED <<uiVars, obsVars>>
  /\ UNCHANGED inspVars

\* err := saveAppUsageToFile(listToSave): nothing for an empty list; else the
\* steam info, then the snapshot file named after time.Now()
TickSave ==
  /\ ~exited
  /\ pcPoll = "save"
  /\ IF NothingToSave(pollList)
       THEN pollErr' = "nil" /\ UNCHANGED <<clock, files, steamFile>>
       ELSE \E o \in SteamOutcomes, ok \in BOOLEAN, t \in clock..MaxTime :
              /\ steamFile' = SteamStep(steamFile, o)
              /\ clock' = t
              /\ files' = WriteSnapshot(files, t, Snapshot(heap, pollList), ok)
              /\ pollErr' = FlushErr(o, ok)
  /\ pcPoll' = "logged"
  /\ UNCHANGED <<heap, appUsageList, appUsageMutex, saveCountdown,
                 lastExePath, now, currentAppTitle, currentExePath, errPath,
                 pollList>>
  /\ UNCHANGED <<uiVars, obsVars>>
  /\ UNCHANGED inspVars

\* variant: the loop returns when the auto-save failed
TickLoggedStopsOnError ==
  /\ ~exited
  /\ pcPoll = "logged"
  /\ pcPoll' = IF pollErr = "error" THEN "done" ELSE "wait"
  /\ pollList' = << >> /\ pollErr' = "none"
  /\ now' = 0 /\ currentAppTitle' = "" /\ currentExePath' = "" /\ errPath' = FALSE
  /\ heap' = Collect(heap, Elems(appUsageList) \cup Elems(uiList))
  /\ detachCount' = Forget(detachCount, Elems(appUsageList) \cup Elems(uiList))
  /\ UNCHANGED <<clock, appUsageList, appUsageMutex, saveCountdown, lastExePath>>
  /\ UNCHANGED <<uiVars, fsVars, tickObs, preVars>>
  /\ UNCHANGED inspVars

\* if err != nil { log } else { log }; end of the iteration
TickLogged ==
  /\ ~exited
  /\ pcPoll = "logged"
  /\ pcPoll' = "wait"
  /\ pollList' = << >> /\ pollErr' = "none"
  /\ now' = 0 /\ currentAppTitle' = "" /\ currentExePath' = "" /\ errPath' = FALSE
  /\ heap' = Collect(heap, Elems(appUsageList) \cup Elems(uiList))
  /\ detachCount' = Forget(detachCount, Elems(appUsageList) \cup Elems(uiList))
  /\ UNCHANGED <<clock, appUsageList, appUsageMutex, saveCountdown, lastExePath>>
  /\ UNCHANGED <<uiVars, fsVars, tickObs, preVars>>
  /\ UNCHANGED inspVars

\* ------------------------------------------------------ tray handlers
pollVars == <<pcPoll, saveCountdown, lastExePath, now, currentAppTitle,
              currentExePath, errPath, pollList, pollErr>>

\* a handler is started from the message loop; its appUsageMutex.Lock()
UILock(next) ==
  /\ ~exited
  /\ pcUI = "idle"
  /\ CanLock(appUsageMutex)
  /\ appUsageMutex' = "ui"
  /\ pcUI' = next
  /\ UNCHANGED <<clock, heap, appUsageList, uiList, uiErr, lastAppInfo, exited>>
  /\ UNCHANGED <<pollVars, fsVars, obsVars>>
  /\ UNCHANGED inspVars

\* appUsageMutex.Unlock() in a handler
UIUnlock(at, next) ==
  /\ ~exited
  /\ pcUI = at
  /\ appUsageMutex' = Unlocked(appUsageMutex)
  /\ pcUI' = next
  /\ UNCHANGED <<clock, heap, appUsageList, uiList, uiErr, lastAppInfo, exited>>
  /\ UNCHANGED <<pollVars, fsVars, obsVars>>
  /\ UNCHANGED inspVars

\* listToSave := copy of appUsageList
UICopy(at, next) ==
  /\ ~exited
  /\ pcUI = at
  /\ uiList' = CopyList(appUsageList)
  /\ pcUI' = next
  /\ ObserveCopy(CopyList(appUsageList))
  /\ UNCHANGED <<clock, heap, appUsageList, appUsageMutex, uiErr, lastAppInfo,
                 exited>>
  /\ UNCHANGED <<pollVars, fsVars, tickObs, preVars>>
  /\ UNCHANGED inspVars

\* appUsageList = nil
UIClear(at, next) ==
  /\ ~exited
  /\ pcUI = at
  /\ appUsageList' = ClearedList(appUsageList)
  /\ pcUI' = next
  /\ ObserveClear
  /\ UNCHANGED <<clock, heap, appUsageMutex, uiList, uiErr, lastAppInfo, exited>>
  /\ UNCHANGED <<pollVars, fsVars, detachCount, prevTickExe, runs, sawEmpty,
                 preVars>>
  /\ UNCHANGED inspVars

\* err := saveAppUsageToFile(listToSave) in a handler
UISave(at, done) ==
  /\ ~exited
  /\ pcUI = at
  /\ IF NothingToSave(uiList)
       THEN uiErr' = "nil" /\ UNCHANGED <<clock, files, steamFile>>
       ELSE \E o \in SteamOutcomes, ok \in BOOLEAN, t \in clock..MaxTime :
              /\ steamFile' = SteamStep(steamFile, o)
              /\ clock' = t
              /\ files' = WriteSnapshot(files, t, Snapshot(heap, uiList), ok)
              /\ uiErr' = FlushErr(o, ok)
  /\ pcUI' = done
  /\ UNCHANGED <<heap, appUsageList, appUsageMutex, uiList, lastAppInfo, exited>>
  /\ UNCHANGED <<pollVars, obsVars>>
  /\ UNCHANGED inspVars

\* ni.MouseDown, left button
StatusLock == UILock("stRead")

\* lastEntry := appUsageList[len-1]; lastAppInfo = "Last tracked: " + AppName
StatusRead ==
  /\ ~exited
  /\ pcUI = "stRead"
  /\ lastAppInfo' = IF Len(appUsageList) > 0
                      THEN heap[Last(appUsageList)].AppName
                      ELSE "No app tracked yet."
  /\ pcUI' = "stUnlock"
  /\ UNCHANGED <<clock, heap, appUsageList, appUsageMutex, uiList, uiErr, exited>>
  /\ UNCHANGED <<pollVars, fsVars, obsVars>>
  /\ UNCHANGED inspVars

\* appUsageMutex.Unlock(); walk.MsgBox(...); the handler returns
StatusUnlock ==
  /\ ~exited
  /\ pcUI = "stUnlock"
  /\ appUsageMutex' = Unlocked(appUsageMutex)
  /\ pcUI' = "idle"
  /\ lastAppInfo' = "none"
  /\ UNCHANGED <<clock, heap, appUsageList, uiList, uiErr, exited>>
  /\ UNCHANGED <<pollVars, fsVars, obsVars>>
  /\ UNCHANGED inspVars

\* saveAction.Triggered
SaveLock == UILock("svCopy")
SaveCopy == UICopy("svCopy", "svClear")
SaveClear == UIClear("svClear", "svUnlock")
SaveUnlock == UIUnlock("svUnlock", "svSave")
SaveSave == UISave("svSave", "svMsg")

\* variant: a failed manual save puts its list back in front of the log
SaveMsgPutsBack ==
  /\ ~exited
  /\ pcUI = "svMsg"
  /\ pcUI' = "idle"
  /\ uiList' = << >> /\ uiErr' = "none"
  /\ appUsageList' = IF uiErr = "error" THEN uiList \o appUsageList
                      ELSE appUsageList
  /\ heap' = Collect(heap, Elems(appUsageList') \cup Elems(pollList))
  /\ detachCount' = Forget(detachCount, Elems(appUsageList') \cup Elems(pollList))
  /\ UNCHANGED <<clock, appUsageMutex, lastAppInfo, exited>>
  /\ UNCHANGED <<pollVars, fsVars, tickObs, preVars>>
  /\ UNCHANGED inspVars

\* the success or error message box; the handler returns
SaveMsg ==
  /\ ~exited
  /\ pcUI = "svMsg"
  /\ pcUI' = "idle"
  /\ uiList' = << >> /\ uiErr' = "none"
  /\ heap' = Collect(heap, Elems(appUsageList) \cup Elems(pollList))
  /\ detachCount' = Forget(detachCount, Elems(appUsageList) \cup Elems(pollList))
  /\ UNCHANGED <<clock, appUsageList, appUsageMutex, lastAppInfo, exited>>
  /\ UNCHANGED <<pollVars, fsVars, tickObs, preVars>>
  /\ UNCHANGED inspVars

\* exitAction.Triggered
ExitLock == UILock("exCopy")
ExitCopy == UICopy("exCopy", "exClear")
ExitClear == UIClear("exClear", "exUnlock")

\* variant: the handler asks for termination right after the unlock
ExitUnlockThenExit == UIUnlock("exUnlock", "exExit")

ExitUnlock == UIUnlock("exUnlock", "exSave")
ExitSave == UISave("exSave", "exExit")

\* walk.App().Exit(0): the message loop ends, main returns and the process
\* is gone with everything it held in memory; the files stay
ExitApp ==
  /\ ~exited
  /\ pcUI = "exExit"
  /\ exited' = TRUE
  /\ pcUI' = "done"
  /\ pcPoll' = "done"
  /\ heap' = << >> /\ appUsageList' = << >> /\ appUsageMutex' = "free"
  /\ saveCountdown' = 0 /\ lastExePath' = ""
  /\ now' = 0 /\ currentAppTitle' = "" /\ currentExePath' = "" /\ errPath' = FALSE
  /\ pollList' = << >> /\ pollErr' = "none"
  /\ uiList' = << >> /\ uiErr' = "none" /\ lastAppInfo' = "none"
  /\ detachCount' = << >> /\ detachedSinceTick' = FALSE /\ prevTickExe' = ""
  /\ runs' = 0 /\ sawEmpty' = FALSE /\ runStart' = 0 /\ runNew' = 0
  /\ runCut' = FALSE /\ gap' = 0 /\ gapAt' = 0
  /\ preList' = << >> /\ preHeap' = << >> /\ preLast' = ""
  /\ UNCHANGED <<clock, fsVars>>
  /\ UNCHANGED inspVars

\* ------------------------------------------------------------- the system
Next ==
  \/ TickObserve \/ ErrLock \/ ErrUpdate \/ ErrUnlock
  \/ TickLock \/ TickBody \/ TickAppend \/ TickCount \/ TickUnlock
  \/ TickCopy \/ TickClear \/ TickSaveUnlock \/ TickSave
  \/ TickLogged
  \/ StatusLock \/ StatusRead \/ StatusUnlock
  \/ SaveLock \/ SaveCopy \/ SaveClear \/ SaveUnlock
  \/ SaveSave \/ SaveMsg
  \/ ExitLock \/ ExitCopy \/ ExitClear \/ ExitUnlock
  \/ ExitSave \/ ExitApp

Spec == Init /\ [][Next]_vars

\* ------------------- the polling loop alone, no handler ever triggered
PollNext ==
  \/ TickObserve \/ ErrLock \/ ErrUpdate \/ ErrUnlock
  \/ TickLock \/ TickBody \/ TickAppend \/ TickCount \/ TickUnlock
  \/ TickCopy \/ TickClear \/ TickSaveUnlock \/ TickSave
  \/ TickLogged

\* the ticker keeps firing and the goroutine keeps running: the loop always
\* takes its next step
PollSpec == Init /\ [][PollNext]_vars /\ WF_vars(PollNext)

\* ------------------------------ one inspector call, taken on its own
\* the call is about to be made, the OS answers are any of InspInputs
InspInit ==
  /\ ProgInit
  /\ inspIn \in InspInputs
  /\ inspOut = NotReturned

\* the call runs to its return
InspCall ==
  /\ ~inspOut.done
  /\ inspOut' = getActiveWindowExecutablePath(inspIn)
  /\ UNCHANGED <<progVars, obsVars, inspIn>>

InspNext == InspCall

InspectorSpec == InspInit /\ [][InspNext]_vars

\* ================================================================ claims
Live == Elems(appUsageList) \cup Elems(pollList) \cup Elems(uiList)

\* positions at which the next statement reads or writes appUsageList
PollLogAccess == {"errUpdate", "body", "append", "copy", "clear"}
UILogAccess == {"stRead", "svCopy", "svClear", "exCopy", "exClear"}

\* positions inside saveAppUsageToFile
PollFileIO == {"save"}
UIFileIO == {"svSave", "exSave"}

\* C1: under any interleaving of ticks and of auto, manual and exit saves, an
\* entry created by a tick is in at most one detached sequence (no entry is
\* copied into a listToSave twice, and the two listToSave in flight are
\* disjoint), and hence in at most one snapshot file.
C1_AtMostOnce ==
  /\ \A i \in DOMAIN detachCount : detachCount[i] <= 1
  /\ Elems(pollList) \cap Elems(uiList) = {}
  /\ \A n1 \in DOMAIN files, n2 \in DOMAIN files :
       n1 # n2 => Elems(files[n1]) \cap Elems(files[n2]) = {}

\* an auto-save and a handler's save both hold a non-empty detached sequence
C1_Witness == Len(pollList) > 0 /\ Len(uiList) > 0

\* C2: each detach copies the whole log and clears it in one critical
\* section: between the copy and the clear the task holds the mutex and the
\* log still equals the copy (no tick, no other detach ran), and between the
\* clear and the unlock the log is empty.
C2_DetachAtomic ==
  /\ pcPoll = "clear" => appUsageMutex = "poll" /\ pollList = appUsageList
  /\ pcPoll = "saveUnlock" => appUsageMutex = "poll" /\ appUsageList = << >>
  /\ pcUI \in {"svClear", "exClear"} =>
       appUsageMutex = "ui" /\ uiList = appUsageList
  /\ pcUI \in {"svUnlock", "exUnlock"} =>
       appUsageMutex = "ui" /\ appUsageList = << >>

\* a handler is between its copy and its clear of a non-empty log while the
\* polling loop waits for the mutex
C2_Witness ==
  /\ pcUI \in {"svClear", "exClear"} /\ Len(uiList) > 0
  /\ pcPoll \in {"lock", "errLock"}

\* C3: every statement that reads or writes appUsageList runs with the mutex
\* held by its task; the closing of the trailing entry and the append of its
\* successor are in one critical section, so no handler is at an access to
\* the log between the two.
C3_AccessUnderMutex ==
  /\ pcPoll \in PollLogAccess => appUsageMutex = "poll"
  /\ pcUI \in UILogAccess => appUsageMutex = "ui"
  /\ pcPoll = "append" => pcUI \notin UILogAccess

\* the trailing entry is closed, its successor not yet appended
C3_Witness ==
  /\ pcPoll = "append" /\ Len(appUsageList) > 0
  /\ heap[Last(appUsageList)].End = now
  /\ heap[Last(appUsageList)].Start < now

C5_ExtendsAcrossSave ==
  (/\ pcPoll = "count" /\ detachedSinceTick
   /\ currentExePath # "" /\ currentExePath = prevTickExe)
  => \E i \in Elems(appUsageList) :
       heap[i].ExecutablePath = currentExePath /\ heap[i].End = now

\* the third tick of: an entry opened at t0, an idle tick at t1 > t0, the same
\* path again at t2 > t1, with no detach in between
GapCase ==
  /\ pcPoll = "count" /\ gap = 2 /\ Len(preList) > 0
  /\ currentExePath = preHeap[Last(preList)].ExecutablePath
  /\ now > gapAt

\* C6 (as claimed): in GapCase the log ends with {A, t0, t1} and {A, t2, t2}:
\* the first entry keeps the idle tick's time as its End.
C6_IdleSplits ==
  GapCase =>
    /\ Len(appUsageList) = Len(preList) + 1
    /\ heap[Last(preList)].Start = preHeap[Last(preList)].Start
    /\ heap[Last(preList)].End = gapAt
    /\ heap[Last(appUsageList)] =
         NewEntry(currentAppTitle, currentExePath, now)

\* C7: every entry of the log and every detached entry has Start <= End.
C7_StartBeforeEnd == \A i \in Live : heap[i].Start <= heap[i].End

\* a detached entry and a log entry, both extended after their creation
C7_Witness ==
  /\ \E i \in Elems(pollList) \cup Elems(uiList) : heap[i].Start < heap[i].End
  /\ \E i \in Elems(appUsageList) : heap[i].Start < heap[i].End

\* C8: as long as no observation was empty or an error, the number of entries
\* created so far (Len(heap): entries in the log, detached or already
\* flushed) equals the number of maximal runs of equal consecutive paths.
C8_SessionsEqualRuns ==
  (~sawEmpty /\ pcPoll # "count") => Len(heap) = runs

\* two runs, the first one's entry already detached
C8_Witness ==
  /\ ~sawEmpty /\ runs = 2 /\ pcPoll = "wait"
  /\ Len(appUsageList) = 1 /\ detachedSinceTick = FALSE

\* C9: a tick at time now with a non-empty path different from lastExePath
\* sets the End of the former trailing entry to now, appends
\* {title, path, now, now} as new trailing entry, changes no other entry of
\* the log, and sets lastExePath to the path.
C9_ChangeClosesAndAppends ==
  (pcPoll = "count" /\ Changed(currentExePath, preLast)) =>
    /\ appUsageList = Append(preList, Len(preHeap) + 1)
    /\ heap[Last(appUsageList)] =
         [AppName |-> currentAppTitle, ExecutablePath |-> currentExePath,
          Start |-> now, End |-> now]
    /\ Len(preList) > 0 =>
         heap[Last(preList)] = [preHeap[Last(preList)] EXCEPT !.End = now]
    /\ \A k \in 1..(Len(preList) - 1) : heap[preList[k]] = preHeap[preList[k]]
    /\ lastExePath = currentExePath

\* a change of path that moves the End of the former trailing entry
C9_Witness ==
  /\ pcPoll = "count" /\ Changed(currentExePath, preLast)
  /\ Len(preList) > 0 /\ preHeap[Last(preList)].End < now
  /\ preHeap[Last(preList)].ExecutablePath # currentExePath

\* the current tick repeats the path of the tick before it
SameAsLast == currentExePath # "" /\ currentExePath = prevTickExe

\* C10: after a tick of a run of ticks with one non-empty path and no detach
\* inside the run, exactly one entry was created during the run, it is the
\* trailing entry, its Start is the time of the run's first tick and its End
\* the time of this tick; a tick that repeats the path appends nothing and
\* changes nothing but the End of the trailing entry.
C10_RunIsOneSession ==
  (pcPoll = "count" /\ currentExePath # "") =>
    /\ ~(SameAsLast /\ runCut) =>
         /\ Len(appUsageList) > 0
         /\ heap[Last(appUsageList)].ExecutablePath = currentExePath
         /\ heap[Last(appUsageList)].Start = (IF SameAsLast THEN runStart ELSE now)
         /\ heap[Last(appUsageList)].End = now
         /\ (IF SameAsLast THEN runNew ELSE 0)
              + (IF Len(appUsageList) > Len(preList) THEN 1 ELSE 0) = 1
    /\ SameAsLast =>
         /\ appUsageList = preList
         /\ \A k \in 1..(Len(preList) - 1) : heap[preList[k]] = preHeap[preList[k]]
         /\ Len(preList) > 0 =>
              heap[Last(preList)] = [preHeap[Last(preList)] EXCEPT !.End = now]

\* a repeating tick extends the entry of its run, behind an older entry
C10_Witness ==
  /\ pcPoll = "count" /\ SameAsLast /\ ~runCut
  /\ Len(appUsageList) = 2
  /\ runStart < now /\ heap[Last(appUsageList)].End = now

\* positions of a handler between its copy and its clear
UICopied == {"svClear", "exClear"}

\* C11: a detach that follows another detach with no tick in between (only a
\* handler's detach can: the auto-save's detach is part of a tick) copies an
\* empty sequence, and the flush of an empty sequence changes no file.
C11_SecondDetachEmpty ==
  /\ []((detachedSinceTick /\ pcUI \in UICopied) => uiList = << >>)
  /\ [][(/\ pcUI \in UIFileIO /\ pcUI' \notin UIFileIO /\ ~exited'
         /\ uiList = << >>)
        => (files' = files /\ steamFile' = steamFile /\ uiErr' = "nil")]_vars

\* a first detach was flushed to a file, the second one has copied the log
C11_Witness ==
  /\ detachedSinceTick /\ pcUI \in UICopied
  /\ files # << >> /\ pcPoll = "wait" /\ pollList = << >>

\* C12 (as claimed): the snapshot file written by a flush is never overwritten
\* or replaced by another flush: a file, once written, keeps its content.
C12_OwnFile ==
  [][\A n \in DOMAIN files : n \in DOMAIN files' /\ files'[n] = files[n]]_vars

\* C13: the step that terminates the process is taken by the exit handler only
\* after its saveAppUsageToFile(listToSave) has returned (err is set, nil or
\* not) and with the mutex released.
C13_FlushBeforeExit ==
  [][(~exited /\ exited')
     => (/\ pcUI = "exExit" /\ uiErr \in {"nil", "error"}
         /\ appUsageMutex # "ui")]_vars

\* the exit handler's flush of a non-empty sequence failed; Exit(0) is next
C13_Witness == pcUI = "exExit" /\ uiErr = "error" /\ Len(uiList) > 0

\* positions at which a tick has done its update of the log: an error tick
\* and an ordinary tick
TickUpdated == {"errUnlock", "count"}

\* C14 (as claimed): every tick, whatever the inspector reported, advances
\* saveCountdown by one before it ends; the tick on which it reaches the
\* threshold resets it to 0 and starts the auto-save, and no other tick does.
C14_EveryTickCounts ==
  [][(pcPoll \in TickUpdated /\ pcPoll' # pcPoll /\ ~exited')
     => (/\ saveCountdown' = (IF SaveDue(saveCountdown + 1)
                                THEN 0 ELSE saveCountdown + 1)
         /\ (pcPoll' = "copy") = SaveDue(saveCountdown + 1))]_vars

\* the session records of a log
Sessions(h, list) == [k \in 1..Len(list) |-> h[list[k]]]

\* the records of log list after a tick at time t with an empty path: the
\* trailing session ends at t, nothing else differs
AfterIdle(h, list, t) ==
  [k \in 1..Len(list) |->
     IF k = Len(list) THEN [h[list[k]] EXCEPT !.End = t] ELSE h[list[k]]]

\* C15: a tick whose inspection failed and a tick with an empty path leave
\* the same log and lastExePath when started in the same state at the same
\* time: the log of before with its trailing session ended at now, and an
\* empty lastExePath (so runs of either kind agree tick by tick).
C15_ErrorAsIdle ==
  [][/\ (pcPoll = "errUnlock" /\ pcPoll' = "wait")
          => (/\ appUsageList' = preList
              /\ Sessions(heap', appUsageList') = AfterIdle(preHeap, preList, now)
              /\ lastExePath' = "")
     /\ (pcPoll = "body" /\ currentExePath = "" /\ pcPoll' = "count")
          => (/\ appUsageList' = preList
              /\ Sessions(heap', appUsageList') = AfterIdle(preHeap, preList, now)
              /\ lastExePath' = "")]_vars

\* an error tick has moved the End of the session that was being tracked
C15_Witness ==
  /\ pcPoll = "errUnlock" /\ Len(preList) > 0 /\ preLast # ""
  /\ preHeap[Last(preList)].End < now
  /\ heap[Last(appUsageList)].End = now

\* lastExePath is empty, or the trailing entry of the log is its session
IdleOrTracking ==
  \/ lastExePath = ""
  \/ /\ Len(appUsageList) > 0
     /\ heap[Last(appUsageList)].ExecutablePath = lastExePath

\* C16 (as claimed): every tick ends idle (lastExePath empty) or tracking
\* (lastExePath non-empty and the trailing entry of the log is the session of
\* lastExePath).
C16_IdleOrTracking ==
  [][(pcPoll # "wait" /\ pcPoll' = "wait") => IdleOrTracking']_vars

\* entry i is detached, or is in the log behind a newer entry (a tick observed
\* another executable after it)
Superseded(i) == i \notin Elems(appUsageList) \/ i # Last(appUsageList)

\* entry i is the trailing entry and the last tick, an idle one after the tick
\* that opened it, observed an empty path
IdleObserved(i) ==
  Len(appUsageList) > 0 /\ i = Last(appUsageList) /\ gap = 2

\* C17 (as claimed): once the log is detached or a tick has observed a path
\* other than the session's own (another executable, or none), no field of the
\* session changes any more.
C17_ClosedIsImmutable ==
  [][\A i \in DOMAIN heap :
       ((Superseded(i) \/ IdleObserved(i)) /\ i \in Live')
         => heap'[i] = heap[i]]_vars

\* the part of C17 that the code keeps: detached and superseded entries
C17_SupersededIsImmutable ==
  [][\A i \in DOMAIN heap :
       (Superseded(i) /\ i \in Live') => heap'[i] = heap[i]]_vars

\* C18: no step lowers the End of an entry that stays in the log or in a
\* detached sequence, whichever tick (same path, idle, error, change) writes
\* it.
C18_EndNeverDecreases ==
  [][\A i \in DOMAIN heap :
       i \in Live' => heap'[i].End >= heap[i].End]_vars

\* an entry whose End an earlier tick had moved is moved again by an error tick
C18_Witness ==
  /\ pcPoll = "errUnlock" /\ Len(preList) > 0
  /\ preHeap[Last(preList)].Start < preHeap[Last(preList)].End
  /\ preHeap[Last(preList)].End < heap[Last(preList)].End

\* C19: saveAppUsageToFile called with an empty list, by the polling loop or
\* by a handler, changes neither the snapshot files nor steaminfo.json and
\* returns nil; no snapshot file holds an empty sequence.
C19_EmptyFlushNoFile ==
  /\ [](\A n \in DOMAIN files : Len(files[n]) > 0)
  /\ [][(/\ pcPoll \in PollFileIO /\ pcPoll' \notin PollFileIO /\ ~exited'
         /\ pollList = << >>)
        => (files' = files /\ steamFile' = steamFile /\ pollErr' = "nil")]_vars
  /\ [][(/\ pcUI \in UIFileIO /\ pcUI' \notin UIFileIO /\ ~exited'
         /\ Len(uiList) = 0)
        => (files' = files /\ steamFile' = steamFile /\ uiErr' = "nil")]_vars

\* the auto-save of an empty log has returned nil and nothing was ever written
C19_Witness ==
  /\ pcPoll = "logged" /\ pollList = << >> /\ pollErr = "nil"
  /\ files = << >> /\ steamFile = "absent"

\* C20: saveAppUsageToFile returns an error exactly when its list is
\* non-empty and the snapshot file did not get written (serialization or
\* write failed); whether steaminfo.json could be built or written does not
\* matter. Checked for the auto-save and for the handlers' saves.
C20_ErrorIffSnapshotFails ==
  /\ [][(pcPoll \in PollFileIO /\ pcPoll' \notin PollFileIO /\ ~exited')
        => (/\ pollErr' \in {"nil", "error"}
            /\ (pollErr' = "error")
                 = (/\ Len(pollList) > 0
                    /\ ~\E n \in DOMAIN files' : files'[n] = pollList))]_vars
  /\ [][(pcUI \in UIFileIO /\ pcUI' \notin UIFileIO /\ ~exited')
        => (/\ uiErr' \in {"nil", "error"}
            /\ (uiErr' = "error")
                 = (/\ Len(uiList) > 0
                    /\ ~\E n \in DOMAIN files' : files'[n] = uiList))]_vars

\* a save returned nil although steaminfo.json was never written
C20_Witness ==
  /\ pcUI = "svMsg" /\ uiErr = "nil" /\ Len(uiList) > 0
  /\ steamFile = "absent" /\ \E n \in DOMAIN files : files[n] = uiList

\* C21: a save of a non-empty list can leave steaminfo.json unwritten (the
\* extractor or the write of that file failed) and still write its snapshot
\* and return nil: the snapshot write is attempted whatever the steam step
\* did. When the steam step failed, the save either wrote the snapshot and
\* returned nil, or failed on the snapshot and left the files as they were.
C21_SteamIndependent ==
  /\ []((/\ pcPoll \in PollFileIO /\ ~exited /\ Len(pollList) > 0
         /\ steamFile = "absent")
        => ENABLED (/\ TickSave /\ steamFile' = "absent" /\ pollErr' = "nil"
                    /\ \E n \in DOMAIN files' : files'[n] = pollList))
  /\ []((/\ pcUI \in UIFileIO /\ ~exited /\ Len(uiList) > 0
         /\ steamFile = "absent")
        => ENABLED (/\ (SaveSave \/ ExitSave)
                    /\ steamFile' = "absent" /\ uiErr' = "nil"
                    /\ \E n \in DOMAIN files' : files'[n] = uiList))
  /\ [][(/\ pcPoll \in PollFileIO /\ pcPoll' \notin PollFileIO /\ ~exited'
         /\ Len(pollList) > 0 /\ steamFile' = "absent")
        => (\/ /\ pollErr' = "nil"
               /\ \E n \in DOMAIN files' : files'[n] = pollList
            \/ /\ pollErr' = "error"
               /\ files' = files)]_vars
  /\ [][(/\ pcUI \in UIFileIO /\ pcUI' \notin UIFileIO /\ ~exited'
         /\ Len(uiList) > 0 /\ steamFile' = "absent")
        => (\/ /\ uiErr' = "nil"
               /\ \E n \in DOMAIN files' : files'[n] = uiList
            \/ /\ uiErr' = "error"
               /\ files' = files)]_vars

\* an auto-save wrote its snapshot although steaminfo.json was never written
C21_Witness ==
  /\ pcPoll = "logged" /\ pollErr = "nil" /\ Len(pollList) > 0
  /\ steamFile = "absent" /\ \E n \in DOMAIN files : files[n] = pollList

\* positions at the end of an error tick and after the auto-save returned
TickEnding == {"errUnlock", "logged"}

\* C22: after an inspection error and after an auto-save, failed or not, the
\* polling loop's next position is the wait for the next tick, which it can
\* always take; the tick after an error tick closes and appends as any other
\* tick does (C9 and C10 hold in every state).
C22_LoopGoesOn ==
  /\ [][(pcPoll \in TickEnding /\ pcPoll' # pcPoll /\ ~exited')
        => pcPoll' = "wait"]_vars
  /\ []((~exited /\ pcPoll \in TickEnding) => ENABLED (ErrUnlock \/ TickLogged))
  /\ []((~exited /\ pcPoll = "wait") => ENABLED TickObserve)

\* the tick after an error tick has closed the trailing entry and appended
C22_Witness ==
  /\ pcPoll = "count" /\ gap = 3 /\ Len(preList) > 0
  /\ Len(appUsageList) = Len(preList) + 1
  /\ preHeap[Last(preList)].End < now /\ heap[Last(preList)].End = now
  /\ heap[Last(appUsageList)] = NewEntry(currentAppTitle, currentExePath, now)

\* C23 (as claimed): a call that opened the process, whose primary query
\* (QueryFullProcessImageNameW) failed and that returns an error has tried
\* the fallback query (GetModuleFileNameExW) before.
C23_FallbackBeforeError ==
  (/\ inspOut.done /\ inspOut.opened = 1 /\ inspIn.primary # "ok"
   /\ inspOut.err # "nil")
  => inspOut.fallback

\* C24: when the call has returned, every process handle it opened is closed,
\* whichever return it took.
C24_HandleReleased == inspOut.done => inspOut.closed = inspOut.opened

\* the call opened the process and returned the fallback's error
C24_Witness ==
  /\ inspOut.done /\ inspOut.opened = 1 /\ inspOut.closed = 1
  /\ inspOut.fallback /\ inspOut.err # "nil"

\* C25: when a save has failed, none of its entries is in the log or in a
\* file; no step puts an entry that left the log back into it, a listToSave
\* is only ever filled from the log, and a file only from the listToSave of
\* the save that writes it. So the log after a failed save holds only entries
\* appended after the detach and no later save holds the failed one's.
C25_FailedSaveIsDropped ==
  /\ []((pcPoll = "logged" /\ pollErr = "error")
        => (/\ Elems(pollList) \cap Elems(appUsageList) = {}
            /\ \A n \in DOMAIN files : Elems(pollList) \cap Elems(files[n]) = {}))
  /\ []((pcUI \in {"svMsg", "exExit"} /\ uiErr = "error")
        => (/\ Elems(uiList) \cap Elems(appUsageList) = {}
            /\ \A n \in DOMAIN files : Elems(uiList) \cap Elems(files[n]) = {}))
  /\ [][\A i \in DOMAIN heap :
          i \notin Elems(appUsageList) => i \notin Elems(appUsageList')]_vars
  /\ [][/\ Elems(pollList') \subseteq Elems(pollList) \cup Elems(appUsageList)
        /\ Elems(uiList') \subseteq Elems(uiList) \cup Elems(appUsageList)]_vars
  /\ [][\A n \in DOMAIN files' :
          \/ n \in DOMAIN files /\ files'[n] = files[n]
          \/ pcPoll \in PollFileIO /\ files'[n] = pollList
          \/ pcUI \in UIFileIO /\ files'[n] = uiList]_vars

\* a manual save has failed and the log already holds a newer entry
C25_Witness ==
  /\ pcUI = "svMsg" /\ uiErr = "error" /\ Len(uiList) > 0
  /\ Len(appUsageList) > 0 /\ files = << >>

\* positions of the polling loop with a detached sequence not yet flushed
PollDetached == {"clear", "saveUnlock", "save"}

\* C26 (as claimed): at the step that terminates the process the log is
\* empty and the polling loop holds no detached sequence that still waits
\* for, or is in, its flush.
C26_NothingLeftAtExit ==
  [][(~exited /\ exited')
     => (/\ appUsageList = << >>
         /\ ~(pcPoll \in PollDetached /\ Len(pollList) > 0))]_vars

\* C27 (as claimed): with the polling loop running for ever and no handler
\* triggered, every entry of the log is eventually in the listToSave of an
\* auto-save.
C27_EventuallySaved ==
  \A i \in 1..MaxSessions :
    [](i \in Elems(appUsageList) => <>(i \in Elems(pollList)))

\* C28: in the log and in every detached sequence, each entry ends at the
\* second at which the entry behind it starts, whatever idle or error ticks
\* came between the two executables.
C28_AdjacentMeet ==
  /\ \A k \in 1..(Len(appUsageList) - 1) :
       heap[appUsageList[k]].End = heap[appUsageList[k + 1]].Start
  /\ \A k \in 1..(Len(pollList) - 1) :
       heap[pollList[k]].End = heap[pollList[k + 1]].Start
  /\ \A k \in 1..(Len(uiList) - 1) :
       heap[uiList[k]].End = heap[uiList[k + 1]].Start

\* an idle tick lay between the two executables: the tick after it has closed
\* the trailing entry at its own time and appended the next one
C28_Witness ==
  /\ pcPoll = "count" /\ gap = 2 /\ Len(preList) > 0 /\ now > gapAt
  /\ Len(appUsageList) = Len(preList) + 1
  /\ heap[Last(preList)].End = heap[Last(appUsageList)].Start
  /\ heap[Last(preList)].ExecutablePath # heap[Last(appUsageList)].ExecutablePath

\* positions between a task's Lock and its Unlock
PollHolds == {"errUpdate", "errUnlock", "body", "append", "count", "unlock",
              "copy", "clear", "saveUnlock"}
UIHolds == {"stRead", "stUnlock", "svCopy", "svClear", "svUnlock",
            "exCopy", "exClear", "exUnlock"}

\* C29: a task holds the mutex exactly at the positions between its Lock and
\* the one Unlock of the path it is on, so every Unlock is of a mutex the
\* task holds and nothing is unlocked twice; the mutex only changes between
\* free and held; the holder can always take its next step (it never waits
\* inside a critical section), and a task waiting for a free mutex can lock
\* it: no state is a deadlock of the polling loop and a handler.
C29_LockDiscipline ==
  /\ []((appUsageMutex = "poll") = (pcPoll \in PollHolds))
  /\ []((appUsageMutex = "ui") = (pcUI \in UIHolds))
  /\ [][appUsageMutex' # appUsageMutex
        => (appUsageMutex = "free" \/ appUsageMutex' = "free")]_vars
  /\ [](appUsageMutex = "poll" => ENABLED PollNext)
  /\ [](appUsageMutex = "ui"
        => ENABLED (\/ StatusRead \/ StatusUnlock
                    \/ SaveCopy \/ SaveClear \/ SaveUnlock
                    \/ ExitCopy \/ ExitClear \/ ExitUnlock))
  /\ []((appUsageMutex = "free" /\ pcPoll \in {"lock", "errLock"} /\ ~exited)
        => ENABLED (TickLock \/ ErrLock))
  /\ []((appUsageMutex = "free" /\ pcUI = "idle" /\ ~exited)
        => ENABLED (StatusLock \/ SaveLock \/ ExitLock))

\* the error path of a tick waits for the mutex that the status handler holds
C29_Witness ==
  pcPoll = "errLock" /\ appUsageMutex = "ui" /\ pcUI = "stRead"

====
